---- MODULE Spec2Model ----
(***************************************************************************)
(* Vibe Commerce: the Express/Mongoose backend of the shared shopping cart *)
(* (product catalog, single global cart, mock checkout).                   *)
(*                                                                         *)
(* Money is counted in whole cents.  A quantity is a JavaScript Number; it *)
(* is represented as an integer count of 1/QtyScale units, so that the     *)
(* fractional quantities a JSON body can carry are values of the model.    *)
(* price * quantity is therefore counted in 1/QtyScale cents.              *)
(***************************************************************************)
EXTENDS Integers, Sequences, FiniteSets

\* ------------------------------------------------------------------ bounds
\* Number of HTTP clients sharing the one global cart.
NumClients == 2
\* Resolution of quantities: one unit of quantity is 1/QtyScale.
QtyScale == 2
\* Largest whole quantity a request carries.
MaxQty == 1
\* Number of catalog products the requests name.
MaxProd == 2
\* Number of CartItem ObjectIds that can be generated.
MaxIds == 2
\* Number of server processes started against the same database.
NumProcs == 2
\* Longest cart drawn as a start state of SpecCart.
MaxCartLen == 2
\* Largest whole quantity the frontend raises a line item to.
MaxUiQty == 2
\* Number of product cards of the grid that are clicked.
MaxCards == 1

Clients == 1..NumClients

Procs == 1..NumProcs

\* ----------------------------------------------------------------- catalog
\* The prices of MOCK_PRODUCTS, in cents, in the order insertMany stores them.
MOCK_PRODUCTS == <<2500, 5500, 1850, 1299, 2200, 3000>>

\* The product documents insertMany(MOCK_PRODUCTS) creates.  A product's name
\* is represented by its position in MOCK_PRODUCTS.
SeededProducts ==
    {[_id |-> i, name |-> i, price |-> MOCK_PRODUCTS[i]] : i \in 1..Len(MOCK_PRODUCTS)}

\* A well-formed ObjectId that names no product.
UnknownProductId == Len(MOCK_PRODUCTS) + 1

\* JavaScript null / undefined as the result of a query or of populate().
Null == [null |-> TRUE]

VARIABLES
    products,   \* the Product collection (Catalog Store)
    cartItems,  \* the CartItem collection (Cart Store), in natural order
    nextId,     \* the next CartItem ObjectId to be generated
    pc,         \* per client: the await point its request handler is at
    req,        \* per client: the request and the handler's local variables
    res,        \* per client: the response sent
    overlapped, \* history: clients whose request ran while another request ran
    removed,    \* history: the line item ids that DELETE requests removed
    boot,       \* per server process: where its startup (connect, seed) is at
    ui          \* the frontend: the mounted Apps and their running handlers

vars == <<products, cartItems, nextId, pc, req, res, overlapped, removed, boot, ui>>

\* ------------------------------------------------------------ request data
\* Quantities a request body carries: zero, negative, the whole quantities
\* 1..MaxQty, and a fractional quantity above 1.
QuantityInputs ==
    {0, -QtyScale, QtyScale + 1} \cup {QtyScale * k : k \in 1..MaxQty}

ProductIdInputs == (1..MaxProd) \cup {UnknownProductId}

\* JSON bodies of POST /api/cart; a field may be absent.
Bodies ==
    [productId : ProductIdInputs, quantity : QuantityInputs]
        \cup {[productId |-> 1], [quantity |-> QtyScale]}

\* (variant of InvalidInput: the test quantity < 1 is left out)
InvalidInputNoRange(body) ==
    \/ "productId" \notin DOMAIN body
    \/ "quantity" \notin DOMAIN body
    \/ body.quantity = 0

\* const { productId, quantity } = req.body;
\* if (!productId || !quantity || quantity < 1)
InvalidInput(body) ==
    \/ "productId" \notin DOMAIN body
    \/ "quantity" \notin DOMAIN body
    \/ body.quantity = 0
    \/ body.quantity < QtyScale

\* ------------------------------------------------------------ store queries
\* Product.findById(id)
ProductFindById(id) ==
    IF \E p \in products : p._id = id
    THEN CHOOSE p \in products : p._id = id
    ELSE Null

\* CartItem.findOne({ product: productId }): the first match in natural order.
FindOne(productId) ==
    IF \E i \in 1..Len(cartItems) : cartItems[i].product = productId
    THEN cartItems[CHOOSE i \in 1..Len(cartItems) :
            /\ cartItems[i].product = productId
            /\ \A j \in 1..(i - 1) : cartItems[j].product # productId]
    ELSE Null

\* CartItem.findById(id)
FindById(id) ==
    IF \E i \in 1..Len(cartItems) : cartItems[i]._id = id
    THEN cartItems[CHOOSE i \in 1..Len(cartItems) : cartItems[i]._id = id]
    ELSE Null

\* .populate('product') on one document: the product reference is replaced by
\* the product document, or by null when the reference does not resolve.
PopulateItem(item) ==
    [_id |-> item._id, product |-> ProductFindById(item.product), quantity |-> item.quantity]

\* CartItem.find({}).populate('product')
FindPopulated == [i \in 1..Len(cartItems) |-> PopulateItem(cartItems[i])]

\* (variant of Without: the documents after the deleted one are dropped too)
RECURSIVE WithoutFrom(_, _)
WithoutFrom(items, id) ==
    IF items = <<>> THEN <<>>
    ELSE IF Head(items)._id = id THEN <<>>
    ELSE <<Head(items)>> \o WithoutFrom(Tail(items), id)

\* The documents of items whose _id is not id, in order (a delete by id).
RECURSIVE Without(_, _)
Without(items, id) ==
    IF items = <<>> THEN <<>>
    ELSE IF Head(items)._id = id THEN Without(Tail(items), id)
    ELSE <<Head(items)>> \o Without(Tail(items), id)

\* ------------------------------------------------------------------ totals
\* (variant of Reduce: the quantity is left out of the sum)
RECURSIVE ReducePricesOnly(_, _)
ReducePricesOnly(items, acc) ==
    IF items = <<>> THEN acc
    ELSE IF Head(items).product # Null
         THEN ReducePricesOnly(Tail(items), acc + Head(items).product.price * QtyScale)
         ELSE ReducePricesOnly(Tail(items), acc)

\* cartItems.reduce((acc, item) => item.product ? acc + price * quantity : acc, acc0)
RECURSIVE Reduce(_, _)
Reduce(items, acc) ==
    IF items = <<>> THEN acc
    ELSE IF Head(items).product # Null
         THEN Reduce(Tail(items), acc + Head(items).product.price * Head(items).quantity)
         ELSE Reduce(Tail(items), acc)

\* parseFloat(total.toFixed(2)): an amount of 1/QtyScale cents rounded to whole
\* cents, half a cent rounding up.  (The binary representation error that can
\* turn an exact half cent either way in IEEE arithmetic is not represented.)
ToFixed2(amount) == (2 * amount + QtyScale) \div (2 * QtyScale)

\* The body of the GET /api/cart response for a populated item list.
CartBody(populated) ==
    [cartItems |-> populated, total |-> ToFixed2(Reduce(populated, 0))]

\* One line of the receipt: name, quantity and unit price, with the
\* placeholders 'Unknown Item' (here name 0) and price 0 for a null product.
OrderLine(item) ==
    [name |-> IF item.product # Null THEN item.product.name ELSE 0,
     quantity |-> item.quantity,
     price |-> IF item.product # Null THEN item.product.price ELSE 0]

\* ------------------------------------------------------------------- state
\* No request of client c is under way.
Ready(c) == pc[c] = "idle"

\* A request of client c arrives at the server.  Requests that are under way
\* at that moment overlap it (recorded in the history variable overlapped).
Arrive(c) ==
    /\ Ready(c)
    /\ overlapped' =
         IF \E d \in Clients : pc[d] \notin {"idle", "done"}
         THEN overlapped \cup {c} \cup {d \in Clients : pc[d] \notin {"idle", "done"}}
         ELSE overlapped \ {c}

Respond(c, r) ==
    /\ res' = [res EXCEPT ![c] = r]
    /\ pc' = [pc EXCEPT ![c] = "done"]

\* ---------------------------------------------------------------- frontend
\* A browser tab mounts one App.  Each client (connection) carries the
\* requests of one running handler of the App of its tab, ui.tab[c]; ui.h[c]
\* is that handler's position and local variables, ui.app[b] the App's state.
Browsers == Clients

\* useState(...): cart null, loading true, error null, modal closed.  (The
\* products state repeats the catalog, which requests never change; whether
\* the cart sidebar is slid in is not represented.)
FreshApp == [loading |-> TRUE, error |-> FALSE, cart |-> Null, isCheckoutModalOpen |-> FALSE]

\* No frontend is mounted: no handler ever runs.
NoFrontend ==
    [tab |-> [c \in Clients |-> c],
     app |-> [b \in Browsers |-> FreshApp],
     h |-> [c \in Clients |-> [at |-> "ready"]]]

Init ==
    /\ products = SeededProducts
    /\ cartItems = <<>>
    /\ nextId = 1
    /\ pc = [c \in Clients |-> "idle"]
    /\ req = [c \in Clients |-> [op |-> "none"]]
    /\ res = [c \in Clients |-> [status |-> 0]]
    /\ overlapped = {}
    /\ removed = {}
    /\ boot = [p \in Procs |-> [pc |-> "up"]]
    /\ ui = NoFrontend

\* The client takes the response; it can then issue its next request.
Receive(c) ==
    /\ pc[c] = "done"
    /\ pc' = [pc EXCEPT ![c] = "idle"]
    /\ req' = [req EXCEPT ![c] = [op |-> "none"]]
    /\ res' = [res EXCEPT ![c] = [status |-> 0]]
    /\ UNCHANGED <<boot, ui, products, cartItems, nextId, overlapped, removed>>

\* ----------------------------------------------------------- GET /api/cart
\* One await: find({}).populate('product'); then the total and the response.
GetCart(c) ==
    /\ Arrive(c)
    /\ req' = [req EXCEPT ![c] = [op |-> "getCart"]]
    /\ Respond(c, [status |-> 200,
                   cartItems |-> CartBody(FindPopulated).cartItems,
                   total |-> CartBody(FindPopulated).total])
    /\ UNCHANGED <<boot, ui, products, cartItems, nextId, removed>>

\* ---------------------------------------------------------- POST /api/cart
\* The request arrives: validation, then the first await, findOne.
PostCart(c, body) ==
    /\ Arrive(c)
    /\ IF InvalidInput(body)
       THEN /\ req' = [req EXCEPT ![c] = [op |-> "postCart", body |-> body]]
            /\ Respond(c, [status |-> 400])
       ELSE /\ res' = [res EXCEPT ![c] = [status |-> 0]]
            /\ IF FindOne(body.productId) # Null
               THEN \* cartItem.quantity = quantity; (on the handler's copy)
                    /\ req' = [req EXCEPT ![c] =
                         [op |-> "postCart", body |-> body,
                          cartItem |-> [FindOne(body.productId)
                                          EXCEPT !.quantity = body.quantity]]]
                    /\ pc' = [pc EXCEPT ![c] = "saveExisting"]
               ELSE /\ req' = [req EXCEPT ![c] = [op |-> "postCart", body |-> body]]
                    /\ pc' = [pc EXCEPT ![c] = "findProduct"]
    /\ UNCHANGED <<boot, ui, products, cartItems, nextId, removed>>

\* cartItemSchema: quantity { type: Number, required: true, min: 1 } and a
\* required product reference; save() validates the document before writing.
SchemaValid(doc) == doc.quantity >= QtyScale

\* await cartItem.save() of a document that was found: an update by _id.
\* When the document was deleted in the meantime the update matches nothing:
\* depending on the Mongoose version save() rejects (500) or resolves.
PostSaveExisting(c) ==
    /\ pc[c] = "saveExisting"
    /\ IF ~SchemaValid(req[c].cartItem)
       THEN /\ Respond(c, [status |-> 500])
            /\ UNCHANGED cartItems
       ELSE IF FindById(req[c].cartItem._id) # Null
       THEN /\ cartItems' = [i \in 1..Len(cartItems) |->
                   IF cartItems[i]._id = req[c].cartItem._id
                   THEN [cartItems[i] EXCEPT !.quantity = req[c].cartItem.quantity]
                   ELSE cartItems[i]]
            /\ pc' = [pc EXCEPT ![c] = "populate"]
            /\ UNCHANGED res
       ELSE /\ UNCHANGED cartItems
            /\ \/ Respond(c, [status |-> 500])
               \/ /\ pc' = [pc EXCEPT ![c] = "populate"]
                  /\ UNCHANGED res
    /\ UNCHANGED <<boot, ui, products, nextId, req, overlapped, removed>>

\* await Product.findById(productId); 404 when absent, else new CartItem(...).
PostFindProduct(c) ==
    /\ pc[c] = "findProduct"
    /\ IF ProductFindById(req[c].body.productId) = Null
       THEN /\ Respond(c, [status |-> 404])
            /\ UNCHANGED <<req, nextId>>
       ELSE /\ nextId <= MaxIds
            /\ req' = [req EXCEPT ![c] =
                 [op |-> "postCart", body |-> req[c].body,
                  cartItem |-> [_id |-> nextId, product |-> req[c].body.productId,
                                quantity |-> req[c].body.quantity]]]
            /\ nextId' = nextId + 1
            /\ pc' = [pc EXCEPT ![c] = "saveNew"]
            /\ UNCHANGED res
    /\ UNCHANGED <<boot, ui, products, cartItems, overlapped, removed>>

\* await cartItem.save() of the new document: an insert.
PostSaveNew(c) ==
    /\ pc[c] = "saveNew"
    /\ IF SchemaValid(req[c].cartItem)
       THEN /\ cartItems' = Append(cartItems, req[c].cartItem)
            /\ pc' = [pc EXCEPT ![c] = "populate"]
            /\ UNCHANGED res
       ELSE /\ Respond(c, [status |-> 500])
            /\ UNCHANGED cartItems
    /\ UNCHANGED <<boot, ui, products, nextId, req, overlapped, removed>>

\* await CartItem.findById(cartItem._id).populate('product'); status 201.
PostPopulate(c) ==
    /\ pc[c] = "populate"
    /\ Respond(c, [status |-> 201,
                   body |-> IF FindById(req[c].cartItem._id) = Null THEN Null
                            ELSE PopulateItem(FindById(req[c].cartItem._id))])
    /\ UNCHANGED <<boot, ui, products, cartItems, nextId, req, overlapped, removed>>

\* ----------------------------------------------------- DELETE /api/cart/:id
\* One await: findByIdAndDelete(id).
DeleteCart(c, id) ==
    /\ Arrive(c)
    /\ req' = [req EXCEPT ![c] = [op |-> "deleteCart", id |-> id]]
    /\ IF FindById(id) = Null
       THEN /\ Respond(c, [status |-> 404])
            /\ UNCHANGED <<cartItems, removed>>
       ELSE /\ Respond(c, [status |-> 200, removedItem |-> FindById(id)])
            /\ cartItems' = Without(cartItems, id)
            /\ removed' = removed \cup {id}
    /\ UNCHANGED <<boot, ui, products, nextId>>

\* ------------------------------------------------------- POST /api/checkout
\* First await: the cart is read and the total summed.
Checkout(c) ==
    /\ Arrive(c)
    /\ req' = [req EXCEPT ![c] =
         [op |-> "checkout", cartItems |-> FindPopulated,
          total |-> Reduce(FindPopulated, 0)]]
    /\ res' = [res EXCEPT ![c] = [status |-> 0]]
    /\ pc' = [pc EXCEPT ![c] = "clear"]
    /\ UNCHANGED <<boot, ui, products, cartItems, nextId, removed>>

\* The receipt res.json sends, from the handler's cartItems and total.  (Its
\* success flag, message, orderId and timestamp are not represented.)
Receipt(r) ==
    [status |-> 200,
     order |-> [items |-> [i \in 1..Len(r.cartItems) |-> OrderLine(r.cartItems[i])],
                total |-> ToFixed2(r.total)]]

\* (variant of CheckoutClear: deleteMany is left out)
CheckoutKeepsCart(c) ==
    /\ pc[c] = "clear"
    /\ req' = [req EXCEPT ![c] =
         [op |-> "checkout", cartItems |-> req[c].cartItems, total |-> req[c].total,
          deleted |-> {}]]
    /\ Respond(c, Receipt(req[c]))
    /\ UNCHANGED <<boot, ui, products, cartItems, nextId, overlapped, removed>>

\* (variant of CheckoutClear: an empty cart is rejected)
CheckoutRejectsEmpty(c) ==
    /\ pc[c] = "clear"
    /\ cartItems' = <<>>
    /\ req' = [req EXCEPT ![c] =
         [op |-> "checkout", cartItems |-> req[c].cartItems, total |-> req[c].total,
          deleted |-> {cartItems[i]._id : i \in 1..Len(cartItems)}]]
    /\ Respond(c, IF req[c].cartItems = <<>> THEN [status |-> 400] ELSE Receipt(req[c]))
    /\ UNCHANGED <<boot, ui, products, nextId, overlapped, removed>>

\* (variant of CheckoutClear: only the line items that were read are deleted)
CheckoutClearsSnapshot(c) ==
    /\ pc[c] = "clear"
    /\ cartItems' = SelectSeq(cartItems, LAMBDA it :
            \A i \in 1..Len(req[c].cartItems) : req[c].cartItems[i]._id # it._id)
    /\ req' = [req EXCEPT ![c] =
         [op |-> "checkout", cartItems |-> req[c].cartItems, total |-> req[c].total,
          deleted |-> {cartItems[i]._id : i \in 1..Len(cartItems)}
                        \cap {req[c].cartItems[i]._id : i \in 1..Len(req[c].cartItems)}]]
    /\ Respond(c, Receipt(req[c]))
    /\ UNCHANGED <<boot, ui, products, nextId, overlapped, removed>>

\* Second await: deleteMany({}) resolves (deleted: the ids of the documents it
\* removed; the handler drops its result); then the receipt is sent.
CheckoutClear(c) ==
    /\ pc[c] = "clear"
    /\ cartItems' = <<>>
    /\ req' = [req EXCEPT ![c] =
         [op |-> "checkout", cartItems |-> req[c].cartItems, total |-> req[c].total,
          deleted |-> {cartItems[i]._id : i \in 1..Len(cartItems)}]]
    /\ Respond(c, Receipt(req[c]))
    /\ UNCHANGED <<boot, ui, products, nextId, overlapped, removed>>

\* (variant of CheckoutClearFail: the receipt is sent although the clear failed)
CheckoutClearFailBestEffort(c) ==
    /\ pc[c] = "clear"
    /\ \E keep \in SUBSET {cartItems[i]._id : i \in 1..Len(cartItems)} :
         cartItems' = SelectSeq(cartItems, LAMBDA it : it._id \in keep)
    /\ req' = [req EXCEPT ![c] =
         [op |-> "checkout", cartItems |-> req[c].cartItems, total |-> req[c].total,
          err |-> TRUE]]
    /\ Respond(c, Receipt(req[c]))
    /\ UNCHANGED <<boot, ui, products, nextId, overlapped, removed>>

\* Second await: deleteMany({}) rejects; the catch block answers 500.  A
\* multi-document delete is not atomic: the documents left are any
\* subsequence of the collection.
CheckoutClearFail(c) ==
    /\ pc[c] = "clear"
    /\ \E keep \in SUBSET {cartItems[i]._id : i \in 1..Len(cartItems)} :
         cartItems' = SelectSeq(cartItems, LAMBDA it : it._id \in keep)
    /\ req' = [req EXCEPT ![c] =
         [op |-> "checkout", cartItems |-> req[c].cartItems, total |-> req[c].total,
          err |-> TRUE]]
    /\ Respond(c, [status |-> 500])
    /\ UNCHANGED <<boot, ui, products, nextId, overlapped, removed>>

\* ----------------------------------------------------------- specifications
Next ==
    \E c \in Clients :
        \/ GetCart(c)
        \/ \E body \in Bodies : PostCart(c, body)
        \/ PostSaveExisting(c)
        \/ PostFindProduct(c)
        \/ PostSaveNew(c)
        \/ PostPopulate(c)
        \/ \E id \in 1..MaxIds : DeleteCart(c, id)
        \/ Checkout(c)
        \/ CheckoutClear(c)
        \/ Receive(c)

Spec == Init /\ [][Next]_vars

\* The same system with a datastore whose deleteMany can fail.
NextFail == Next \/ \E c \in Clients : CheckoutClearFail(c)

SpecFail == Init /\ [][NextFail]_vars

\* The cart service on its own, started in any state of the two stores: a
\* cart of up to MaxCartLen line items over the whole catalog (duplicates and
\* fractional quantities included), and a catalog that has lost some of its
\* products by other means than this application ("in case product was
\* deleted but still in cart"), so that references dangle.
StoredQuantities == {QtyScale * k : k \in 1..MaxQty} \cup {QtyScale + 1}

InitCart ==
    /\ \E gone \in SUBSET (1..MaxProd) :
         products = {p \in SeededProducts : p._id \notin gone}
    /\ \E n \in 0..MaxCartLen :
         \E f \in [1..n -> [product : 1..Len(MOCK_PRODUCTS), quantity : StoredQuantities]] :
            cartItems = [i \in 1..n |->
                           [_id |-> i, product |-> f[i].product, quantity |-> f[i].quantity]]
    /\ nextId = Len(cartItems) + 1
    /\ pc = [c \in Clients |-> "idle"]
    /\ req = [c \in Clients |-> [op |-> "none"]]
    /\ res = [c \in Clients |-> [status |-> 0]]
    /\ overlapped = {}
    /\ removed = {}
    /\ boot = [p \in Procs |-> [pc |-> "up"]]
    /\ ui = NoFrontend

NextCart == \E c \in Clients : GetCart(c) \/ Receive(c)

SpecCart == InitCart /\ [][NextCart]_vars

\* ------------------------------------------------------------ startup, seed
\* Server processes started against one database.  Each runs
\* mongoose.connect(MONGO_URI).then(seedDatabase); a process can be restarted
\* at any time.  The catalog is read through GET /api/products.

\* Product.insertMany(MOCK_PRODUCTS) on a collection: one new document per
\* mock product, each with an ObjectId the collection does not hold yet.
InsertMany(coll) ==
    coll \cup {[_id |-> Cardinality(coll) + i, name |-> i, price |-> MOCK_PRODUCTS[i]] :
                 i \in 1..Len(MOCK_PRODUCTS)}

\* const productCount = await Product.countDocuments();
SeedCount(p) ==
    /\ boot[p].pc = "connect"
    /\ boot' = [boot EXCEPT ![p] = [pc |-> "counted", productCount |-> Cardinality(products)]]
    /\ UNCHANGED <<ui, products, cartItems, nextId, pc, req, res, overlapped, removed>>

\* if (productCount === 0) await Product.insertMany(MOCK_PRODUCTS); else skip.
SeedInsert(p) ==
    /\ boot[p].pc = "counted"
    /\ products' = IF boot[p].productCount = 0 THEN InsertMany(products) ELSE products
    /\ boot' = [boot EXCEPT ![p] = [pc |-> "up"]]
    /\ UNCHANGED <<ui, cartItems, nextId, pc, req, res, overlapped, removed>>

\* The process is stopped and started again (npm run dev, nodemon).
Restart(p) ==
    /\ boot[p].pc # "connect"
    /\ boot' = [boot EXCEPT ![p] = [pc |-> "connect"]]
    /\ UNCHANGED <<ui, products, cartItems, nextId, pc, req, res, overlapped, removed>>

\* GET /api/products: one await, Product.find({}).
GetProducts(c) ==
    /\ Arrive(c)
    /\ req' = [req EXCEPT ![c] = [op |-> "getProducts"]]
    /\ Respond(c, [status |-> 200, products |-> products])
    /\ UNCHANGED <<boot, ui, products, cartItems, nextId, removed>>

\* The database is empty (first start) or was seeded by an earlier run.
InitSeed ==
    /\ products \in {{}, SeededProducts}
    /\ cartItems = <<>>
    /\ nextId = 1
    /\ pc = [c \in Clients |-> "idle"]
    /\ req = [c \in Clients |-> [op |-> "none"]]
    /\ res = [c \in Clients |-> [status |-> 0]]
    /\ overlapped = {}
    /\ removed = {}
    /\ boot = [p \in Procs |-> [pc |-> "connect"]]
    /\ ui = NoFrontend

NextSeed ==
    \/ \E p \in Procs : SeedCount(p) \/ SeedInsert(p) \/ Restart(p)
    \/ \E c \in Clients : GetProducts(c) \/ Receive(c)

SpecSeed == InitSeed /\ [][NextSeed]_vars

\* ------------------------------------------------------ frontend (App.jsx)
\* A handler runs from one await to the next in one step.  Between the step
\* that issues a request and the arrival of the request at the server, and
\* between the response and the handler's continuation, other clients act.

AppOf(c) == ui.app[ui.tab[c]]

\* What App renders: GlobalSpinner while loading, else ErrorDisplay when the
\* error is set, else the store (product grid, cart sidebar, modal).
Shown(a) ==
    IF a.loading THEN "GlobalSpinner"
    ELSE IF a.error THEN "ErrorDisplay"
    ELSE "App"

\* The stages at which a handler awaits apiClient.post('/cart', ...) and
\* apiClient.get('/cart').
PostStages == {"add:post", "update:post"}
GetStages == {"add:get", "update:get", "remove:get"}

\* A click can start a handler on connection c: the store is rendered and the
\* connection carries no handler.
CanStart(c) ==
    /\ Shown(AppOf(c)) = "App"
    /\ ui.h[c].at = "ready"
    /\ pc[c] = "idle"

\* The App of c's tab becomes a and c's handler moves to hh.
Step(c, a, hh) == ui' = [ui EXCEPT !.app[ui.tab[c]] = a, !.h[c] = hh]

\* The handler's continuation takes the response of its request.
Take(c) ==
    /\ pc[c] = "done"
    /\ pc' = [pc EXCEPT ![c] = "idle"]
    /\ req' = [req EXCEPT ![c] = [op |-> "none"]]
    /\ res' = [res EXCEPT ![c] = [status |-> 0]]

\* axios resolves for a 2xx status and rejects otherwise.
Ok(r) == r.status \in {200, 201}

\* catch (err) { setError("...") }
Catch(a) == [a EXCEPT !.error = TRUE]

\* (variant of SetCart: a cart that could be fetched also clears the error)
SetCartClearsError(a, r) ==
    [a EXCEPT !.cart = [cartItems |-> r.cartItems, total |-> r.total], !.error = FALSE]

\* setCart(cartResponse.data)
SetCart(a, r) == [a EXCEPT !.cart = [cartItems |-> r.cartItems, total |-> r.total]]

\* cart.cartItems.find(item => item.product._id === productId): the index of
\* the first match, 0 when there is none.
FindInCart(items, productId) ==
    IF \E i \in 1..Len(items) : items[i].product._id = productId
    THEN CHOOSE i \in 1..Len(items) :
            /\ items[i].product._id = productId
            /\ \A j \in 1..(i - 1) : items[j].product._id # productId
    ELSE 0

\* The request of c's handler reaches the server (apiClient.get / post /
\* delete); the handler runs on the server up to its first await.
Send(c) ==
    \/ /\ ui.h[c].at \in {"load"} \cup GetStages
       /\ GetCart(c)
    \/ /\ ui.h[c].at \in PostStages
       /\ PostCart(c, ui.h[c].body)
    \/ /\ ui.h[c].at = "remove:delete"
       /\ DeleteCart(c, ui.h[c].id)
    \/ /\ ui.h[c].at = "checkout"
       /\ Checkout(c)

\* The request of c's handler does not reach the server (connection refused,
\* timeout): the await rejects, the handler's catch sets the error, and the
\* finally of fetchInitialData ends loading.
NetworkError(c) ==
    /\ ui.h[c].at # "ready"
    /\ pc[c] = "idle"
    /\ Step(c, [Catch(AppOf(c)) EXCEPT !.loading =
                    IF ui.h[c].at = "load" THEN FALSE ELSE @],
            [at |-> "ready"])
    /\ UNCHANGED <<boot, products, cartItems, nextId, pc, req, res, overlapped, removed>>

\* fetchInitialData, after Promise.all([get('/products'), get('/cart')]):
\* setProducts, setCart; finally setLoading(false).  (The two requests are
\* represented by the cart request: GET /api/products returns the catalog.)
FetchInitialData(c) ==
    /\ ui.h[c].at = "load"
    /\ Take(c)
    /\ IF Ok(res[c])
       THEN Step(c, [SetCart(AppOf(c), res[c]) EXCEPT !.loading = FALSE], [at |-> "ready"])
       ELSE Step(c, [Catch(AppOf(c)) EXCEPT !.loading = FALSE], [at |-> "ready"])
    /\ UNCHANGED <<boot, products, cartItems, nextId, overlapped, removed>>

\* handleAddToCart(productId) up to its first await: the new absolute quantity
\* is computed from the App's copy of the cart.  A product card is disabled
\* while its own add is running (isAdding).
HandleAddToCart(c, productId) ==
    LET items == AppOf(c).cart.cartItems
        existingItem == FindInCart(items, productId)
        newQuantity == IF existingItem # 0 THEN items[existingItem].quantity + QtyScale
                       ELSE QtyScale
    IN  /\ CanStart(c)
        /\ \A d \in Clients :
              ui.tab[d] = ui.tab[c] /\ ui.h[d].at \in {"add:post", "add:get"}
              => ui.h[d].body.productId # productId
        /\ newQuantity <= MaxUiQty * QtyScale
        /\ Step(c, AppOf(c),
                [at |-> "add:post",
                 body |-> [productId |-> productId, quantity |-> newQuantity]])
        /\ UNCHANGED <<boot, products, cartItems, nextId, pc, req, res, overlapped, removed>>

\* handleUpdateQuantity(item._id, item.quantity + by) up to its first await,
\* from the minus (by = -1) or plus (by = 1) button of the i-th cart row; a
\* new quantity below 1 is handed to handleRemoveFromCart.
HandleUpdateQuantity(c, i, by) ==
    LET items == AppOf(c).cart.cartItems
        newQuantity == items[i].quantity + by * QtyScale
    IN  /\ CanStart(c)
        /\ i \in 1..Len(items)
        /\ items[i].product # Null
        /\ newQuantity <= MaxUiQty * QtyScale
        /\ Step(c, AppOf(c),
                IF newQuantity < QtyScale
                THEN [at |-> "remove:delete", id |-> items[i]._id]
                ELSE [at |-> "update:post",
                      body |-> [productId |-> items[i].product._id,
                                quantity |-> newQuantity]])
        /\ UNCHANGED <<boot, products, cartItems, nextId, pc, req, res, overlapped, removed>>

\* handleRemoveFromCart(item._id) up to its first await, from the trash
\* button of the i-th cart row.
HandleRemoveFromCart(c, i) ==
    LET items == AppOf(c).cart.cartItems
    IN  /\ CanStart(c)
        /\ i \in 1..Len(items)
        /\ items[i].product # Null
        /\ Step(c, AppOf(c), [at |-> "remove:delete", id |-> items[i]._id])
        /\ UNCHANGED <<boot, products, cartItems, nextId, pc, req, res, overlapped, removed>>

\* await apiClient.post('/cart', ...) or apiClient.delete(...) settles: on
\* success the handler goes on to refetch the cart, else catch.
Posted(c) ==
    /\ ui.h[c].at \in PostStages \cup {"remove:delete"}
    /\ Take(c)
    /\ IF Ok(res[c])
       THEN Step(c, AppOf(c),
                 [ui.h[c] EXCEPT !.at = IF @ = "add:post" THEN "add:get"
                                        ELSE IF @ = "update:post" THEN "update:get"
                                        ELSE "remove:get"])
       ELSE Step(c, Catch(AppOf(c)), [at |-> "ready"])
    /\ UNCHANGED <<boot, products, cartItems, nextId, overlapped, removed>>

\* const cartResponse = await apiClient.get('/cart') settles:
\* setCart(cartResponse.data), else catch.
Refetched(c) ==
    /\ ui.h[c].at \in GetStages
    /\ Take(c)
    /\ IF Ok(res[c])
       THEN Step(c, SetCart(AppOf(c), res[c]), [at |-> "ready"])
       ELSE Step(c, Catch(AppOf(c)), [at |-> "ready"])
    /\ UNCHANGED <<boot, products, cartItems, nextId, overlapped, removed>>

\* handleCheckout: the button is rendered for a non-empty cart; the modal
\* opens.
HandleCheckout(c) ==
    /\ CanStart(c)
    /\ Len(AppOf(c).cart.cartItems) # 0
    /\ ~AppOf(c).isCheckoutModalOpen
    /\ Step(c, [AppOf(c) EXCEPT !.isCheckoutModalOpen = TRUE], ui.h[c])
    /\ UNCHANGED <<boot, products, cartItems, nextId, pc, req, res, overlapped, removed>>

\* handleCheckoutSubmit(formData) up to its await, from the modal's form; the
\* submit button is disabled while a submit is running (isSubmitting).
HandleCheckoutSubmit(c) ==
    /\ CanStart(c)
    /\ AppOf(c).isCheckoutModalOpen
    /\ \A d \in Clients : ui.tab[d] = ui.tab[c] => ui.h[d].at # "checkout"
    /\ Step(c, AppOf(c), [at |-> "checkout"])
    /\ UNCHANGED <<boot, products, cartItems, nextId, pc, req, res, overlapped, removed>>

\* await apiClient.post('/checkout', ...) settles: the modal closes and the
\* App's cart is emptied locally, else catch.
CheckedOut(c) ==
    /\ ui.h[c].at = "checkout"
    /\ Take(c)
    /\ IF Ok(res[c])
       THEN Step(c, [AppOf(c) EXCEPT !.isCheckoutModalOpen = FALSE,
                                     !.cart = [cartItems |-> <<>>, total |-> 0]],
                 [at |-> "ready"])
       ELSE Step(c, Catch(AppOf(c)), [at |-> "ready"])
    /\ UNCHANGED <<boot, products, cartItems, nextId, overlapped, removed>>

\* The tabs are opened on an empty cart: every client has a tab of its own,
\* or all clients carry the handlers of one tab.  The first client of a tab
\* carries the initial load of its App.
InitUI ==
    /\ products = SeededProducts
    /\ cartItems = <<>>
    /\ nextId = 1
    /\ pc = [c \in Clients |-> "idle"]
    /\ req = [c \in Clients |-> [op |-> "none"]]
    /\ res = [c \in Clients |-> [status |-> 0]]
    /\ overlapped = {}
    /\ removed = {}
    /\ boot = [p \in Procs |-> [pc |-> "up"]]
    /\ \E tab \in {[c \in Clients |-> c], [c \in Clients |-> 1]} :
         ui = [tab |-> tab,
               app |-> [b \in Browsers |-> FreshApp],
               h |-> [c \in Clients |-> IF tab[c] = c THEN [at |-> "load"]
                                        ELSE [at |-> "ready"]]]

NextUI ==
    \E c \in Clients :
        \/ Send(c)
        \/ NetworkError(c)
        \/ FetchInitialData(c)
        \/ \E productId \in 1..MaxCards : HandleAddToCart(c, productId)
        \/ \E i \in 1..MaxIds, by \in {-1, 1} : HandleUpdateQuantity(c, i, by)
        \/ \E i \in 1..MaxIds : HandleRemoveFromCart(c, i)
        \/ Posted(c)
        \/ Refetched(c)
        \/ HandleCheckout(c)
        \/ HandleCheckoutSubmit(c)
        \/ CheckedOut(c)
        \/ PostSaveExisting(c)
        \/ PostFindProduct(c)
        \/ PostSaveNew(c)
        \/ PostPopulate(c)
        \/ CheckoutClear(c)
        \/ CheckoutClearFail(c)

SpecUI == InitUI /\ [][NextUI]_vars

\* ------------------------------------------------------------------ claims
\* What GET /api/cart answers in the current state.
CartRead == CartBody(FindPopulated)

\* The positions of the line items a cart read shows for a product.
LinesOf(view, productId) ==
    {i \in 1..Len(view.cartItems) :
        /\ view.cartItems[i].product # Null
        /\ view.cartItems[i].product._id = productId}

\* Client c takes a step that sends its response.
Responds(c) == pc[c] # "done" /\ pc'[c] = "done"

\* C1: in every reachable state the Cart Store holds at most one line item
\* per distinct product, whatever the interleaving of the requests.
C1_OneLinePerProduct ==
    \A i, j \in 1..Len(cartItems) :
        cartItems[i].product = cartItems[j].product => i = j

\* C2: when an add/set request (P, q) that no other request overlapped
\* answers 201, the cart read that follows shows P on exactly one line, with
\* quantity exactly q.
C2_SetThenReadShowsQuantity ==
    [][\A c \in Clients :
          (/\ Responds(c)
           /\ req[c].op = "postCart"
           /\ res'[c].status = 201
           /\ c \notin overlapped)
          => /\ Cardinality(LinesOf(CartRead', req[c].body.productId)) = 1
             /\ \A i \in LinesOf(CartRead', req[c].body.productId) :
                    CartRead'.cartItems[i].quantity = req[c].body.quantity]_vars

\* The exact sum, in 1/QtyScale cents, of price x quantity over the first n
\* line items of the Cart Store whose product is in the Catalog Store.
RECURSIVE SumResolvable(_)
SumResolvable(n) ==
    IF n = 0 THEN 0
    ELSE SumResolvable(n - 1)
           + (IF \E p \in products : p._id = cartItems[n].product
              THEN MOCK_PRODUCTS[cartItems[n].product] * cartItems[n].quantity
              ELSE 0)

Abs(x) == IF x < 0 THEN -x ELSE x

\* C3: the cart read lists every line item of the Cart Store, the ones whose
\* product does not resolve with a null product; its total is a whole number
\* of cents within half a cent of the sum of price x quantity over the line
\* items whose product resolves, and equals that sum when it is whole cents.
C3_TotalIsRoundedSum ==
    \A c \in Clients :
        (pc[c] = "done" /\ req[c].op = "getCart") =>
            /\ res[c].status = 200
            /\ Len(res[c].cartItems) = Len(cartItems)
            /\ \A i \in 1..Len(cartItems) :
                 /\ res[c].cartItems[i]._id = cartItems[i]._id
                 /\ res[c].cartItems[i].quantity = cartItems[i].quantity
                 /\ IF \E p \in products : p._id = cartItems[i].product
                    THEN /\ res[c].cartItems[i].product # Null
                         /\ res[c].cartItems[i].product._id = cartItems[i].product
                    ELSE res[c].cartItems[i].product = Null
            /\ 2 * Abs(QtyScale * res[c].total - SumResolvable(Len(cartItems))) <= QtyScale
            /\ SumResolvable(Len(cartItems)) % QtyScale = 0
                 => QtyScale * res[c].total = SumResolvable(Len(cartItems))

\* A cart read of a cart that holds a line item whose product resolves and one
\* whose product does not, with a sum that is not whole cents.
C3_Witness ==
    \E c \in Clients :
        /\ pc[c] = "done" /\ req[c].op = "getCart"
        /\ \E i, j \in 1..Len(res[c].cartItems) :
             /\ res[c].cartItems[i].product = Null
             /\ res[c].cartItems[j].product # Null
        /\ res[c].total > 0
        /\ SumResolvable(Len(cartItems)) % QtyScale # 0

\* The ids of the line items in a sequence of (populated) documents.
Ids(items) == {items[i]._id : i \in 1..Len(items)}

\* Client c's checkout takes its second step: the clear and the response.
Clears(c) == pc[c] = "clear" /\ pc'[c] = "done"

\* C4: when a checkout clears a non-empty cart that is still as the checkout
\* read it, the receipt's total is the total of a cart read that returned
\* this cart, and the cart read that follows the checkout returns no line
\* items and total 0.
C4_CheckoutReceiptAndEmptyCart ==
    [][\A c \in Clients :
          (Clears(c) /\ req[c].cartItems # <<>> /\ req[c].cartItems = FindPopulated)
          => /\ res'[c].status = 200
             /\ CartRead'.cartItems = <<>>
             /\ CartRead'.total = 0
             /\ \A d \in Clients :
                  (/\ pc[d] = "done" /\ req[d].op = "getCart"
                   /\ res[d].cartItems = FindPopulated)
                  => res'[c].order.total = res[d].total]_vars

\* A checkout has answered with a receipt of a non-empty cart whose total is
\* the one another client's cart read returned, and the cart is empty.
C4_Witness ==
    \E c, d \in Clients :
        /\ pc[c] = "done" /\ req[c].op = "checkout" /\ res[c].status = 200
        /\ Len(res[c].order.items) > 0
        /\ pc[d] = "done" /\ req[d].op = "getCart"
        /\ res[d].cartItems = req[c].cartItems
        /\ res[d].total = res[c].order.total
        /\ res[d].total > 0
        /\ cartItems = <<>>

ClearFails(c) == Clears(c) /\ "err" \in DOMAIN req'[c]

C8_QuantityWholeProductExists ==
    \A i \in 1..Len(cartItems) :
        /\ cartItems[i].quantity % QtyScale = 0
        /\ cartItems[i].quantity >= QtyScale
        /\ \E p \in products : p._id = cartItems[i].product

\* C9: a checkout that read an empty cart answers 200 with a receipt whose
\* total is 0 and whose order lines are empty, and its clear leaves the Cart
\* Store empty.
C9_EmptyCheckoutSucceeds ==
    /\ [](\A c \in Clients :
            (pc[c] = "done" /\ req[c].op = "checkout" /\ req[c].cartItems = <<>>)
            => /\ res[c].status = 200
               /\ res[c].order.total = 0
               /\ res[c].order.items = <<>>)
    /\ [][\A c \in Clients :
            (Clears(c) /\ req[c].cartItems = <<>>) => cartItems' = <<>>]_vars

\* A checkout of an empty cart has answered, and has deleted nothing.
C9_Witness ==
    \E c \in Clients :
        /\ pc[c] = "done" /\ req[c].op = "checkout" /\ req[c].cartItems = <<>>
        /\ res[c].status = 200
        /\ req[c].deleted = {}
        /\ cartItems = <<>>

\* C10: the clear of a checkout deletes every line item the Cart Store holds
\* at that moment, while the receipt lists exactly the line items the
\* checkout read: a line item added in between is deleted and is on no
\* receipt.
C10_ClearDeletesUnlistedItems ==
    [][\A c \in Clients :
          Clears(c) =>
            /\ cartItems' = <<>>
            /\ req'[c].deleted = Ids(cartItems)
            /\ Len(res'[c].order.items) = Len(req[c].cartItems)
            /\ \A i \in 1..Len(req[c].cartItems) :
                 /\ res'[c].order.items[i].quantity = req[c].cartItems[i].quantity
                 /\ req[c].cartItems[i].product # Null
                      => res'[c].order.items[i].name = req[c].cartItems[i].product.name]_vars

\* Client d's add/set request created a line item and was answered 201 with
\* it between client c's cart read and clear: the checkout deleted the line
\* item, its receipt does not list it, and the cart no longer holds it.
C10_Witness ==
    \E c, d \in Clients :
        /\ pc[c] = "done" /\ req[c].op = "checkout" /\ res[c].status = 200
        /\ pc[d] = "done" /\ req[d].op = "postCart" /\ res[d].status = 201
        /\ res[d].body # Null
        /\ req[d].cartItem._id \in req[c].deleted
        /\ req[d].cartItem._id \notin Ids(req[c].cartItems)
        /\ Len(res[c].order.items) = Len(req[c].cartItems)
        /\ req[d].cartItem._id \notin Ids(cartItems)

\* The number of documents the Catalog Store holds for mock product i.
Copies(i) == Cardinality({d \in products : d.name = i})

\* C11: once a startup has completed, the Catalog Store holds each mock
\* product exactly once, however many processes were started against the
\* store and however often.
C11_EachMockProductOnce ==
    (\E p \in Procs : boot[p].pc = "up")
        => \A i \in 1..Len(MOCK_PRODUCTS) : Copies(i) = 1

\* C11 (the parts that hold): a startup that counted a populated store leaves
\* the Catalog Store as it is, a startup that counted an empty store adds each
\* mock product once, and no request changes the Catalog Store.
C11_SeedSkipsPopulatedStore ==
    [][/\ \A p \in Procs :
            (boot[p].pc = "counted" /\ boot'[p].pc = "up")
            => IF boot[p].productCount = 0
               THEN \A i \in 1..Len(MOCK_PRODUCTS) :
                       Cardinality({d \in products' : d.name = i}) = Copies(i) + 1
               ELSE products' = products
       /\ (\A p \in Procs : boot'[p] = boot[p]) => products' = products]_vars

\* C12: every add-or-set request answered 201 carries the line item of the
\* requested product, joined with that product and with the requested
\* quantity, whatever other requests ran meanwhile.
C12_CreatedCarriesRequestedItem ==
    \A c \in Clients :
        (pc[c] = "done" /\ req[c].op = "postCart" /\ res[c].status = 201)
        => /\ res[c].body # Null
           /\ res[c].body.product # Null
           /\ res[c].body.product._id = req[c].body.productId
           /\ res[c].body.quantity = req[c].body.quantity

\* C12 (the part that holds): a 201 answer to a request no other request
\* overlapped carries the requested product and quantity.
C12_CreatedAloneCarriesRequestedItem ==
    \A c \in Clients :
        (pc[c] = "done" /\ req[c].op = "postCart" /\ res[c].status = 201
            /\ c \notin overlapped)
        => /\ res[c].body # Null
           /\ res[c].body.product # Null
           /\ res[c].body.product._id = req[c].body.productId
           /\ res[c].body.quantity = req[c].body.quantity

\* The quantity the Cart Store holds of a product, over all its line items.
RECURSIVE StoredQuantity(_, _)
StoredQuantity(items, productId) ==
    IF items = <<>> THEN 0
    ELSE (IF Head(items).product = productId THEN Head(items).quantity ELSE 0)
         + StoredQuantity(Tail(items), productId)

\* The save of the POST request that client c's Add-to-Cart sent completes.
AddSaves(c) ==
    /\ ui.h[c].at = "add:post"
    /\ pc[c] \in {"saveExisting", "saveNew"}
    /\ pc'[c] = "populate"

\* C13: the save of every Add-to-Cart of the frontend raises the stored
\* quantity of its product by exactly 1, whatever the other clients did since
\* the App's copy of the cart was fetched.
C13_AddRaisesStoredQuantityByOne ==
    [][\A c \in Clients :
          AddSaves(c)
          => StoredQuantity(cartItems', ui.h[c].body.productId)
               = StoredQuantity(cartItems, ui.h[c].body.productId) + QtyScale]_vars

\* C14: once the error of an App is set it stays set: the App renders the
\* error display from then on, no handler continuation clears the error, and
\* no cart action (no handler, no checkout modal) is started in that tab.
C14_ErrorIsAbsorbing ==
    /\ [](\A b \in Browsers : ui.app[b].error => Shown(ui.app[b]) = "ErrorDisplay")
    /\ [][\A b \in Browsers :
            ui.app[b].error
            => /\ ui'.app[b].error
               /\ ~ui.app[b].isCheckoutModalOpen => ~ui'.app[b].isCheckoutModalOpen
               /\ \A c \in Clients :
                    (ui.tab[c] = b /\ ui.h[c].at = "ready") => ui'.h[c].at = "ready"]_vars

\* A handler failed in a tab while another handler of the tab was running,
\* and the cart that handler refetched is about to be set.
C14_Witness ==
    \E c \in Clients :
        /\ AppOf(c).error
        /\ AppOf(c).cart # Null
        /\ ui.h[c].at \in GetStages
        /\ pc[c] = "done"

====
